---- MODULE Spec2Model ----
(***************************************************************************)
(* Model of src/main.py: the Salesforce extraction script.  The main       *)
(* program (pre_steps, read_config, get_sf_conn, get_json_data, execute)   *)
(* is one sequential process; every task submitted by execute runs         *)
(* get_sf_data on a worker thread of a ThreadPoolExecutor.                 *)
(***************************************************************************)
EXTENDS Integers, Sequences, FiniteSets, TLC

\* ------------------------------------------------------------------ bounds
MaxObjs == 2      \* longest list of objects in the JSON file
MaxW    == 2      \* largest [proc] threads value in the config file
MaxRows == 2      \* records in a non-empty query answer

\* --------------------------------------------------------------- constants
None    == "None"
NoFile  == [present |-> FALSE, writer |-> 0, columns |-> {}, nrows |-> 0,
            raced |-> FALSE, mixed |-> FALSE]
Dirs    == {"csv", "pq"}
ObjNames == {"Account", "Contact"}

\* fields of the objects of the JSON file (spec.md section 8 scenario)
FieldsOf(name) ==
    IF name = "Account"
    THEN << [field_api_name |-> "Id", type |-> "str"],
            [field_api_name |-> "Name", type |-> "str"] >>
    ELSE << [field_api_name |-> "Id", type |-> "str"],
            [field_api_name |-> "Age", type |-> "int64"] >>

\* the entries a JSON file may hold: every entry has obj_api_name and
\* fields; the file either gives every entry an obj_name key or none
\* (obj_name is None when the key is absent)
JsonEntries(withObjName) ==
    { [obj_api_name |-> n, obj_name |-> IF withObjName THEN n ELSE None,
       fields |-> FieldsOf(n)] : n \in ObjNames }

RECURSIVE SeqsUpTo(_, _)
SeqsUpTo(S, n) ==
    IF n = 0 THEN { <<>> }
    ELSE LET shorter == SeqsUpTo(S, n - 1)
         IN  shorter \cup { Append(s, x) : s \in { t \in shorter : Len(t) = n - 1 }, x \in S }

\* the JSON files: lists of up to MaxObjs entries, names repeated or not.
\* execute and get_sf_data treat every entry alike, so of the lists that
\* differ only in the order of the names the one with the Account entries
\* first stands for all
JsonFiles ==
    { f \in UNION { SeqsUpTo(JsonEntries(b), MaxObjs) : b \in BOOLEAN } :
        \A k \in 1..(Len(f) - 1) :
            f[k].obj_api_name = "Contact" => f[k + 1].obj_api_name = "Contact" }

\* ------------------------------------------------- the API client's answers
Range(s) == { s[k] : k \in DOMAIN s }

FieldNames(fields) == [k \in DOMAIN fields |-> fields[k].field_api_name]

\* one record of a query result: the selected columns plus the envelope
MkRecord(cols, v) == [c \in cols |-> IF c = "attributes" THEN "meta" ELSE v]

\* column sets the API may answer with: exactly the declared fields, the
\* last declared field missing, and (for an object whose fields are all
\* text) one undeclared column added
ColumnSets(fields) ==
    LET declared == Range(FieldNames(fields))
        allText  == \A k \in DOMAIN fields : fields[k].type = "str"
    IN  { declared \cup {"attributes"},
          (declared \ {fields[Len(fields)].field_api_name}) \cup {"attributes"} }
        \cup (IF allText THEN { declared \cup {"attributes", "Extra"} } ELSE {})

\* record lists the API may answer with: no record or MaxRows records; the
\* last record may hold text
RecordLists(fields) ==
    { [k \in 1..n |-> MkRecord(cols, IF k = n /\ bad THEN "abc" ELSE "1")] :
        n \in {0, MaxRows}, cols \in ColumnSets(fields), bad \in BOOLEAN }

\* SFBulkType.query_all answers a list of records
BulkAnswer(recs) == [kind |-> "list", keys |-> {}, items |-> recs]

\* Salesforce.query_all answers the response envelope
NormalAnswer(recs) ==
    [kind |-> "dict", keys |-> {"totalSize", "done", "records"}, items |-> recs]

QueryError == [kind |-> "error", keys |-> {}, items |-> <<>>]

\* what query_all may do for one entry in the given mode
QueryAll(exec_type, fields) ==
    {QueryError} \cup
    { IF exec_type = "BULK" THEN BulkAnswer(r) ELSE NormalAnswer(r) :
        r \in RecordLists(fields) }

\* ----------------------------------------------------- pandas, as used here
\* Python truth value of a list or a dict
Truthy(data) ==
    IF data.kind = "list" THEN Len(data.items) > 0 ELSE data.keys # {}

NoFrame == [columns |-> {}, rows |-> <<>>]

\* pd.DataFrame.from_dict(list of records)
FromDict(recs) ==
    [columns |-> UNION { DOMAIN recs[k] : k \in DOMAIN recs }, rows |-> recs]

\* drop whose result is thrown away: the frame keeps the column
DropMut(df, col) ==
    IF col \notin df.columns
    THEN [exc |-> "KeyError", df |-> NoFrame]
    ELSE [exc |-> None, df |-> df]

\* DataFrame.drop(col, axis=1): KeyError when the column is absent
Drop(df, col) ==
    IF col \notin df.columns
    THEN [exc |-> "KeyError", df |-> NoFrame]
    ELSE [exc |-> None,
          df  |-> [columns |-> df.columns \ {col},
                   rows |-> [k \in DOMAIN df.rows |->
                               [c \in DOMAIN df.rows[k] \ {col} |-> df.rows[k][c]]]]]

\* dict(zip(field_names, field_types)): a later duplicate overrides
DictFields(fields) ==
    [n \in Range(FieldNames(fields)) |->
        LET last == CHOOSE k \in DOMAIN fields :
                       /\ fields[k].field_api_name = n
                       /\ \A j \in DOMAIN fields :
                            fields[j].field_api_name = n => j <= k
        IN  fields[last].type]

Numeric == {"1"}

Coercible(v, type) == type = "str" \/ (type = "int64" /\ v \in Numeric)

Cast(v, type) == [dtype |-> type, repr |-> v]

\* astype that keeps a column it cannot convert (errors='ignore')
AstypeMut(df, dict_fields) ==
    IF \E n \in DOMAIN dict_fields : n \notin df.columns
    THEN [exc |-> "KeyError", df |-> NoFrame]
    ELSE [exc |-> None, df |-> df]

\* astype that converts the declared columns it finds and skips the rest
AstypeSkipMut(df, dict_fields) ==
    IF \E k \in DOMAIN df.rows : \E n \in DOMAIN dict_fields \cap df.columns :
           ~Coercible(df.rows[k][n], dict_fields[n])
    THEN [exc |-> "ValueError", df |-> NoFrame]
    ELSE [exc |-> None,
          df  |-> [columns |-> df.columns,
                   rows |-> [k \in DOMAIN df.rows |->
                               [c \in DOMAIN df.rows[k] |->
                                  Cast(df.rows[k][c], "object")]]]]

\* DataFrame.astype(mapping): KeyError for a key that is no column,
\* ValueError for a value the type rejects, other columns stay as they are
Astype(df, dict_fields) ==
    IF \E n \in DOMAIN dict_fields : n \notin df.columns
    THEN [exc |-> "KeyError", df |-> NoFrame]
    ELSE IF \E k \in DOMAIN df.rows : \E n \in DOMAIN dict_fields :
               ~Coercible(df.rows[k][n], dict_fields[n])
    THEN [exc |-> "ValueError", df |-> NoFrame]
    ELSE [exc |-> None,
          df  |-> [columns |-> df.columns,
                   rows |-> [k \in DOMAIN df.rows |->
                               [c \in DOMAIN df.rows[k] |->
                                  IF c \in DOMAIN dict_fields
                                  THEN Cast(df.rows[k][c], dict_fields[c])
                                  ELSE Cast(df.rows[k][c], "object")]]]]

\* get_sf_data from its first line to df.astype: the query, the
\* empty-result test of the mode, the envelope strip and the coercion.
\* step "return" carries the returned count, "raise" the exception,
\* "write" the frame that to_csv and to_parquet will persist
Fetched(exec_type, sf_object, data) ==
    IF data.kind = "error"
    THEN [step |-> "raise", exc |-> "SalesforceError", ret |-> 0, df |-> NoFrame]
    ELSE IF ~Truthy(data)
    THEN [step |-> "return", exc |-> None, ret |-> 0, df |-> NoFrame]
    ELSE LET raw     == IF exec_type = "BULK"
                        THEN FromDict(data.items)      \* from_dict(data)
                        ELSE FromDict(data.items)      \* from_dict(data['records'])
             dropped == Drop(raw, "attributes")
             typed   == Astype(dropped.df, DictFields(sf_object.fields))
         IN  IF dropped.exc # None
             THEN [step |-> "raise", exc |-> dropped.exc, ret |-> 0, df |-> NoFrame]
             ELSE IF typed.exc # None
             THEN [step |-> "raise", exc |-> typed.exc, ret |-> 0, df |-> NoFrame]
             ELSE [step |-> "write", exc |-> None, ret |-> 0, df |-> typed.df]

VARIABLES
    pcMain,          \* position of the main program
    exitCode,        \* process exit status, None while running
    args,            \* parsed arguments: exec_type
    inputFiles,      \* which of CONFIG_FILE, JSON_FILE exist
    outDir,          \* outDir[d][name]: the file <name>.csv / <name>.parquet
    THREAD_COUNT,    \* config['proc']['threads']
    sf,              \* what the Salesforce constructor did: None before the call
    list_sf_objects, \* json_data
    futures,         \* futures[i]: the Future of the i-th submitted task
    work_queue,      \* the executor's queue of work items not yet started
    frame,           \* frame[i]: position and local df of task i in get_sf_data
    observed,        \* futures the as_completed loop has yielded
    log,             \* log[i]: lines the dispatcher logged for task i
    calls,           \* calls[i]: invocations of get_sf_data for entry i
    writes           \* writes[d][name]: tasks that wrote the file

vars == << pcMain, exitCode, args, inputFiles, outDir, THREAD_COUNT, sf,
           list_sf_objects, futures, work_queue, frame, observed, log,
           calls, writes >>

\* ------------------------------------------------------------------ helpers
Tasks == DOMAIN futures

\* a task's position in get_sf_data and its locals: df and the columns of
\* the answer behind it (both gone when the call raises), the number of
\* records the query answered (-1: none), whether a record held a value its
\* declared type rejects, and the exception get_sf_data raised
NewFrame == [pc |-> "queued", df |-> NoFrame, nrecs |-> -1, cols |-> {},
             bad |-> FALSE, raised |-> None]

NewFuture == [state |-> "PENDING", result |-> 0, exception |-> None]

\* the task states of spec.md section 4.3, read off a Future
TaskState(f) ==
    CASE f.state = "PENDING" -> "Pending"
      [] f.state = "RUNNING" -> "Running"
      [] f.state = "FINISHED" /\ f.exception = None -> "Succeeded"
      [] OTHER -> "Failed"

Running == { i \in Tasks : futures[i].state = "RUNNING" }

\* ThreadPoolExecutor(max_workers=W): a worker is free to take a work item
CanStartMut(running, W) == Cardinality(running) <= W
CanStart(running, W) == Cardinality(running) < W

\* the work item a free worker takes: the oldest in the queue
NextItemMut(q) == q[Len(q)]
NextItem(q) == Head(q)

\* a worker takes the oldest work item off the queue
DequeueMut(q) == q
Dequeue(q) == Tail(q)

\* _WorkItem.run: the call's exception or return value ends the Future
SetOutcomeMut(f, exc, ret) ==
    [state |-> "FINISHED", result |-> ret, exception |-> None]
SetOutcome(f, exc, ret) ==
    [state |-> "FINISHED", result |-> IF exc = None THEN ret ELSE 0,
     exception |-> exc]

\* as_completed yields a Future once it is finished
CompletedMut(f) == f.state # "PENDING"
Completed(f) == f.state = "FINISHED"

\* leaving the with block: shutdown(wait=True) joins the workers
JoinedMut(fs) == TRUE
Joined(fs) == \A i \in DOMAIN fs : fs[i].state = "FINISHED"

EmptyDir == [n \in ObjNames |-> NoFile]

\* a file of an earlier run
StaleFile == [present |-> TRUE, writer |-> 0, columns |-> {"Id"}, nrows |-> 1,
              raced |-> FALSE, mixed |-> FALSE]

PriorDirs ==
    { [exists |-> FALSE, files |-> EmptyDir],
      [exists |-> TRUE,  files |-> EmptyDir],
      [exists |-> TRUE,  files |-> [EmptyDir EXCEPT !["Account"] = StaleFile]] }

\* rmtree(ignore_errors=True) then mkdir(exist_ok=True, parents=True) on both
\* directories: each exists and holds nothing
WipedMut(dirs) == [d \in Dirs |-> [exists |-> TRUE, files |-> dirs[d].files]]
Wiped(dirs) == [d \in Dirs |-> [exists |-> TRUE, files |-> EmptyDir]]

\* the directories pre_steps leaves: the wipe comes first, whether or not
\* the input files exist
PreStepsDirsMut(dirs, inputsExist) == IF inputsExist THEN Wiped(dirs) ELSE dirs
PreStepsDirs(dirs, inputsExist) == Wiped(dirs)

\* --------------------------------------------------------------------- Init
Init ==
    /\ pcMain = "pre_steps"
    /\ exitCode = -1
    /\ args \in [exec_type : {"BULK", "NORMAL"}]
    /\ inputFiles \in [config : BOOLEAN, json : BOOLEAN]
    /\ \E prior \in PriorDirs : outDir = [d \in Dirs |-> prior]
    /\ THREAD_COUNT = 0
    /\ sf = None
    /\ list_sf_objects = <<>>
    /\ futures = <<>>
    /\ work_queue = <<>>
    /\ frame = <<>>
    /\ observed = {}
    /\ log = <<>>
    /\ calls = <<>>
    /\ writes = [d \in Dirs |-> [n \in ObjNames |-> <<>>]]

\* ------------------------------------------------------------ main program
\* pre_steps: wipe and recreate both output directories, then exit(1) when
\* an input file is missing
PreSteps ==
    /\ pcMain = "pre_steps"
    /\ outDir' = PreStepsDirs(outDir, inputFiles.config /\ inputFiles.json)
    /\ IF inputFiles.config /\ inputFiles.json
       THEN /\ pcMain' = "read_config"
            /\ UNCHANGED exitCode
       ELSE /\ pcMain' = "fatal"
            /\ exitCode' = 1
    /\ UNCHANGED << sf, args, inputFiles, THREAD_COUNT, list_sf_objects, futures,
                    work_queue, frame, observed, log, calls, writes >>

\* init_logger, read_config and the config lookups
ReadConfig ==
    /\ pcMain = "read_config"
    /\ \E w \in 1..MaxW : THREAD_COUNT' = w
    /\ pcMain' = "get_sf_conn"
    /\ UNCHANGED << sf, exitCode, args, inputFiles, outDir, list_sf_objects,
                    futures, work_queue, frame, observed, log, calls, writes >>

ConnResults == {"connected", "SalesforceAuthenticationFailed", "Exception"}

\* get_sf_conn: both except clauses end in sys.exit(1)
AfterConnMut(r) == "get_json_data"
AfterConn(r) == IF r = "connected" THEN "get_json_data" ELSE "fatal"

GetSfConn ==
    /\ pcMain = "get_sf_conn"
    /\ \E r \in ConnResults :
         /\ sf' = r
         /\ pcMain' = AfterConn(r)
         /\ exitCode' = IF pcMain' = "fatal" THEN 1 ELSE exitCode
    /\ UNCHANGED << args, inputFiles, outDir, THREAD_COUNT, list_sf_objects,
                    futures, work_queue, frame, observed, log, calls, writes >>

GetJsonData ==
    /\ pcMain = "get_json_data"
    /\ \E l \in JsonFiles : list_sf_objects' = l
    /\ pcMain' = "execute"
    /\ UNCHANGED << sf, exitCode, args, inputFiles, outDir, THREAD_COUNT,
                    futures, work_queue, frame, observed, log, calls, writes >>

\* execute, the dict comprehension: submit one work item for the next entry
Submit ==
    /\ pcMain = "execute"
    /\ Len(futures) < Len(list_sf_objects)
    /\ futures' = Append(futures, NewFuture)
    /\ work_queue' = Append(work_queue, Len(futures) + 1)
    /\ frame' = Append(frame, NewFrame)
    /\ log' = Append(log, <<>>)
    /\ calls' = Append(calls, 0)
    /\ UNCHANGED << sf, pcMain, exitCode, args, inputFiles, outDir, THREAD_COUNT,
                    list_sf_objects, observed, writes >>

\* the body of the as_completed loop for one yielded future; the log call
\* reads obj["obj_name"] and raises KeyError when the entry has no such key
LoopBody(obj, f) ==
    IF obj.obj_name = None
    THEN [raised |-> TRUE, line |-> <<>>]
    ELSE IF f.exception # None
    THEN [raised |-> FALSE,
          line |-> << [level |-> "WARNING", name |-> obj.obj_name,
                       rows |-> 0, error |-> f.exception] >>]
    ELSE [raised |-> FALSE,
          line |-> << [level |-> "INFO", name |-> obj.obj_name,
                       rows |-> f.result, error |-> None] >>]

Collect(i) ==
    /\ pcMain = "execute"
    /\ Len(futures) = Len(list_sf_objects)
    /\ i \in Tasks \ observed
    /\ Completed(futures[i])
    /\ observed' = observed \cup {i}
    /\ LET body == LoopBody(list_sf_objects[i], futures[i])
       IN  /\ log' = [log EXCEPT ![i] = @ \o body.line]
           /\ pcMain' = IF body.raised THEN "unwinding" ELSE pcMain
    /\ UNCHANGED << sf, exitCode, args, inputFiles, outDir, THREAD_COUNT,
                    list_sf_objects, futures, work_queue, frame, calls, writes >>

\* the loop is over when as_completed has yielded every future
LoopDoneMut(obs, fs) == TRUE
LoopDone(obs, fs) == obs = DOMAIN fs

\* execute returns: the loop ended and the with block joined the workers
ExecuteReturn ==
    /\ pcMain = "execute"
    /\ Len(futures) = Len(list_sf_objects)
    /\ LoopDone(observed, futures)
    /\ Joined(futures)
    /\ pcMain' = "returned"
    /\ UNCHANGED << sf, exitCode, args, inputFiles, outDir, THREAD_COUNT,
                    list_sf_objects, futures, work_queue, frame, observed,
                    log, calls, writes >>

\* the KeyError leaves the with block: shutdown(wait=True), then it
\* propagates out of execute
ExecuteRaise ==
    /\ pcMain = "unwinding"
    /\ Joined(futures)
    /\ pcMain' = "raised"
    /\ UNCHANGED << sf, exitCode, args, inputFiles, outDir, THREAD_COUNT,
                    list_sf_objects, futures, work_queue, frame, observed,
                    log, calls, writes >>

\* the last line of the script logs the elapsed time; exit status 0
MainExit ==
    /\ pcMain = "returned"
    /\ pcMain' = "exited"
    /\ exitCode' = 0
    /\ UNCHANGED << sf, args, inputFiles, outDir, THREAD_COUNT, list_sf_objects,
                    futures, work_queue, frame, observed, log, calls, writes >>

\* an exception nobody catches ends the interpreter with status 1
UncaughtExit ==
    /\ pcMain = "raised"
    /\ pcMain' = "traceback"
    /\ exitCode' = 1
    /\ UNCHANGED << sf, args, inputFiles, outDir, THREAD_COUNT, list_sf_objects,
                    futures, work_queue, frame, observed, log, calls, writes >>

\* ----------------------------------------------------------- worker threads
\* a free worker takes the oldest work item and calls get_sf_data
StartTask ==
    /\ pcMain \in {"execute", "unwinding"}
    /\ work_queue # <<>>
    /\ CanStart(Running, THREAD_COUNT)
    /\ LET i == NextItem(work_queue)
       IN  /\ futures' = [futures EXCEPT ![i].state = "RUNNING"]
           /\ frame' = [frame EXCEPT ![i] = [NewFrame EXCEPT !.pc = "fetch"]]
           /\ calls' = [calls EXCEPT ![i] = @ + 1]
    /\ work_queue' = Dequeue(work_queue)
    /\ UNCHANGED << sf, pcMain, exitCode, args, inputFiles, outDir, THREAD_COUNT,
                    list_sf_objects, observed, log, writes >>

\* the order of get_sf_data's steps: query and coercion, to_csv, to_parquet
NextStepMut(pc) ==
    CASE pc = "fetch" -> "pq"
      [] pc = "csv"   -> "pq"
      [] OTHER        -> "done"
NextStep(pc) ==
    CASE pc = "fetch" -> "csv"
      [] pc = "csv"   -> "pq"
      [] OTHER        -> "done"

\* some record holds, in a declared field, a value the field's type rejects
HoldsBadValue(recs, dict_fields) ==
    \E k \in DOMAIN recs : \E n \in DOMAIN dict_fields \cap DOMAIN recs[k] :
        ~Coercible(recs[k][n], dict_fields[n])

\* get_sf_data up to df.astype: query, empty test, strip, coercion
Fetch(i) ==
    /\ i \in Tasks
    /\ frame[i].pc = "fetch"
    /\ \E data \in QueryAll(args.exec_type, list_sf_objects[i].fields) :
         LET r     == Fetched(args.exec_type, list_sf_objects[i], data)
             seen  == [frame[i] EXCEPT
                         !.nrecs = IF data.kind = "error" THEN -1
                                   ELSE Len(data.items),
                         !.bad = HoldsBadValue(data.items,
                                               DictFields(list_sf_objects[i].fields))]
         IN  IF r.step = "write"
             THEN /\ frame' = [frame EXCEPT ![i] = [seen EXCEPT !.pc = NextStep("fetch"), !.df = r.df,
                                          !.cols = FromDict(data.items).columns]]
                  /\ UNCHANGED futures
             ELSE /\ frame' = [frame EXCEPT ![i] = [seen EXCEPT !.pc = "done", !.raised = r.exc]]
                  /\ futures' = [futures EXCEPT ![i] = SetOutcome(@, r.exc, r.ret)]
    /\ UNCHANGED << sf, pcMain, exitCode, args, inputFiles, outDir, THREAD_COUNT,
                    list_sf_objects, work_queue, observed, log, calls, writes >>

\* tasks of the same object that are inside the same write call as task i
Racing(i, pc) ==
    { j \in Tasks \ {i} :
        /\ frame[j].pc = pc
        /\ list_sf_objects[j].obj_api_name = list_sf_objects[i].obj_api_name }

\* the file a completed write of task i leaves.  Writers that have the same
\* path open at once may leave either's rows or a mix of both: raced says
\* another task of the object was inside the same call when i wrote, mixed
\* that the content may be such a mix (i raced, or wrote over a raced write)
Written(i, d, pc) ==
    LET old  == outDir[d].files[list_sf_objects[i].obj_api_name]
        race == Racing(i, pc) # {}
    IN  [present |-> TRUE, writer |-> i, columns |-> frame[i].df.columns,
         nrows |-> Len(frame[i].df.rows), raced |-> race,
         mixed |-> race \/ (old.present /\ old.writer # i /\ old.raced)]

\* df.to_csv(output_path/csv/<name>.csv)
WriteCsv(i) ==
    /\ i \in Tasks
    /\ frame[i].pc = "csv"
    /\ LET name == list_sf_objects[i].obj_api_name
       IN  \/ /\ outDir["csv"].exists
              /\ outDir' = [outDir EXCEPT !["csv"].files[name] = Written(i, "csv", "csv")]
              /\ writes' = [writes EXCEPT !["csv"][name] = Append(@, i)]
              /\ frame' = [frame EXCEPT ![i].pc = NextStep("csv")]
              /\ UNCHANGED futures
           \/ /\ frame' = [frame EXCEPT ![i].pc = "done", ![i].df = NoFrame,
                                         ![i].cols = {}, ![i].raised = "OSError"]
              /\ futures' = [futures EXCEPT ![i] = SetOutcome(@, "OSError", 0)]
              /\ UNCHANGED << outDir, writes >>
    /\ UNCHANGED << sf, pcMain, exitCode, args, inputFiles, THREAD_COUNT,
                    list_sf_objects, work_queue, observed, log, calls >>

\* df.to_parquet(output_path/pq/<name>.parquet), then return len(df.index)
WritePq(i) ==
    /\ i \in Tasks
    /\ frame[i].pc = "pq"
    /\ LET name == list_sf_objects[i].obj_api_name
       IN  \/ /\ outDir["pq"].exists
              /\ outDir' = [outDir EXCEPT !["pq"].files[name] = Written(i, "pq", "pq")]
              /\ writes' = [writes EXCEPT !["pq"][name] = Append(@, i)]
              /\ futures' = [futures EXCEPT ![i] =
                               SetOutcome(@, None, Len(frame[i].df.rows))]
              /\ frame' = [frame EXCEPT ![i].pc = NextStep("pq"), ![i].df = NoFrame]
           \/ /\ futures' = [futures EXCEPT ![i] = SetOutcome(@, "OSError", 0)]
              /\ frame' = [frame EXCEPT ![i].pc = "done", ![i].df = NoFrame,
                                         ![i].cols = {}, ![i].raised = "OSError"]
              /\ UNCHANGED << outDir, writes >>
    /\ UNCHANGED << sf, pcMain, exitCode, args, inputFiles, THREAD_COUNT,
                    list_sf_objects, work_queue, observed, log, calls >>

\* --------------------------------------------------------------------- Next
Next ==
    \/ PreSteps
    \/ ReadConfig
    \/ GetSfConn
    \/ GetJsonData
    \/ Submit
    \/ \E i \in 1..MaxObjs : Collect(i)
    \/ ExecuteReturn
    \/ ExecuteRaise
    \/ MainExit
    \/ UncaughtExit
    \/ StartTask
    \/ \E i \in 1..MaxObjs : Fetch(i)
    \/ \E i \in 1..MaxObjs : WriteCsv(i)
    \/ \E i \in 1..MaxObjs : WritePq(i)

Spec == Init /\ [][Next]_vars

\* the worker threads keep running and the main program keeps going
FairSpec == Spec /\ WF_vars(Next)

\* ================================================================== claims
ExecuteOver == pcMain \in {"returned", "raised", "exited", "traceback"}

Failed(i)    == TaskState(futures[i]) = "Failed"
Succeeded(i) == TaskState(futures[i]) = "Succeeded"
Terminal(i)  == Failed(i) \/ Succeeded(i)

\* C1: failure isolation.  A submitted task is never dropped or cancelled:
\* it is Pending exactly while its work item is queued.  A finished task is
\* Failed exactly when its own get_sf_data raised, with that exception, and
\* otherwise Succeeded with the number of records its own query answered.
\* When execute is over every entry of the list, whatever its siblings did,
\* has run to such an outcome.
C1_FailureIsolation ==
    /\ \A i \in Tasks :
         /\ futures[i].state = "PENDING" <=> i \in Range(work_queue)
         /\ frame[i].pc = "done" =>
              /\ Terminal(i)
              /\ Failed(i) <=> frame[i].raised # None
              /\ Failed(i) => futures[i].exception = frame[i].raised
              /\ Succeeded(i) => futures[i].result = frame[i].nrecs
    /\ ExecuteOver =>
         /\ Len(futures) = Len(list_sf_objects)
         /\ \A i \in Tasks : frame[i].pc = "done" /\ Terminal(i)

\* a finished run in which one task failed and another succeeded with rows
C1_Witness ==
    /\ pcMain = "returned"
    /\ \E i, j \in Tasks : Failed(i) /\ Succeeded(j) /\ futures[j].result > 0

\* C2: at most THREAD_COUNT tasks are Running in any reachable state.
C2_WorkerBudget == Cardinality(Running) <= THREAD_COUNT

\* the budget is used up while a work item waits in the queue
C2_Witness ==
    /\ THREAD_COUNT >= 1
    /\ Cardinality(Running) = THREAD_COUNT
    /\ work_queue # <<>>

\* C3: one task per list entry, each invoked exactly once: never more than
\* once at any time, and exactly once for every entry when execute is over.
C3_ExactlyOnce ==
    /\ Len(futures) <= Len(list_sf_objects)
    /\ \A i \in Tasks : calls[i] <= 1
    /\ ExecuteOver =>
         /\ Len(futures) = Len(list_sf_objects)
         /\ \A i \in 1..Len(list_sf_objects) : calls[i] = 1

\* a finished run over a list that repeats an object name, one task failed
C3_Witness ==
    /\ ExecuteOver
    /\ \E i, j \in Tasks :
         /\ i # j
         /\ list_sf_objects[i].obj_api_name = list_sf_objects[j].obj_api_name
         /\ Failed(i)
         /\ calls[i] = 1 /\ calls[j] = 1

\* C4: when execute has returned, every submitted task is Succeeded or
\* Failed and the as_completed loop has yielded it; and also when execute
\* was left by an exception no task is Pending or Running.
C4_ReturnAfterAll ==
    /\ pcMain = "returned" =>
         /\ Len(futures) = Len(list_sf_objects)
         /\ observed = Tasks
         /\ \A i \in Tasks : Terminal(i)
    /\ pcMain = "raised" => \A i \in Tasks : Terminal(i)

\* execute returned after two tasks, both observed
C4_Witness ==
    /\ pcMain = "returned"
    /\ Len(futures) >= 2
    /\ observed = Tasks

\* C5: each task goes Pending -> Running -> Succeeded | Failed and stays
\* there, and when execute is over the dispatcher has logged each task's
\* outcome exactly once: INFO with the object's name and the row count for
\* a Succeeded task, WARNING with the name and the error for a Failed one.
C5_ReportedOnce ==
    ExecuteOver =>
      \A i \in Tasks :
        /\ Terminal(i)
        /\ Len(log[i]) = 1
        /\ log[i][1].name = list_sf_objects[i].obj_api_name
        /\ Succeeded(i) =>
             log[i][1].level = "INFO" /\ log[i][1].rows = futures[i].result
        /\ Failed(i) =>
             log[i][1].level = "WARNING" /\ log[i][1].error = futures[i].exception

\* C6: in both modes a task whose query answered zero records ends
\* Succeeded with row count 0 and raises nothing.
C6_ZeroRowsSucceed ==
    \A i \in Tasks :
      (frame[i].pc = "done" /\ frame[i].nrecs = 0) =>
        /\ Succeeded(i)
        /\ futures[i].result = 0
        /\ frame[i].raised = None

\* C7: a task one of whose records held a value its declared type rejects
\* ends Failed, has written no file in either directory, and no file in
\* either directory comes from it.
C7_CoercionFailure ==
    \A i \in Tasks :
      frame[i].bad =>
        /\ frame[i].pc = "done"
        /\ Failed(i)
        /\ \A d \in Dirs : \A n \in ObjNames :
             /\ i \notin Range(writes[d][n])
             /\ outDir[d].files[n].present => outDir[d].files[n].writer # i

\* a finished run: one object failed on a bad value and has no files, an
\* object of another name succeeded and has both files
C7_Witness ==
    /\ ExecuteOver
    /\ \E i, j \in Tasks :
         LET ni == list_sf_objects[i].obj_api_name
             nj == list_sf_objects[j].obj_api_name
         IN  /\ ni # nj
             /\ frame[i].bad /\ Failed(i) /\ frame[i].raised = "ValueError"
             /\ Succeeded(j) /\ futures[j].result > 0
             /\ \A d \in Dirs :
                  /\ ~outDir[d].files[ni].present
                  /\ outDir[d].files[nj].present
                  /\ outDir[d].files[nj].writer = j

\* the conditions that end the run before execute
FatalCondition ==
    \/ pcMain # "pre_steps" /\ ~(inputFiles.config /\ inputFiles.json)
    \/ sf \in ConnResults \ {"connected"}

\* C8: the exit status is 1 exactly for a missing input file, a failed
\* authentication or a connection error, and 0 for every other run.
C8_ExitStatus ==
    exitCode # -1 => (exitCode = 1 <=> FatalCondition)

\* C9: in a run that hits a fatal condition no task is ever submitted or
\* started: no Future, no work item, no get_sf_data call, no list loaded.
C9_FatalBeforeTasks ==
    FatalCondition =>
      /\ futures = <<>>
      /\ work_queue = <<>>
      /\ calls = <<>>
      /\ frame = <<>>
      /\ list_sf_objects = <<>>

\* the run ended on an authentication failure
C9_Witness ==
    /\ sf = "SalesforceAuthenticationFailed"
    /\ pcMain = "fatal"
    /\ exitCode = 1

\* C10 as stated: for every list, repeated names included, no two tasks of
\* one object name are Running together and no two tasks write one path.
C10_AnyList ==
    /\ \A i, j \in Running :
         i # j => list_sf_objects[i].obj_api_name # list_sf_objects[j].obj_api_name
    /\ \A d \in Dirs : \A n \in ObjNames : Len(writes[d][n]) <= 1

DistinctNames ==
    \A i, j \in DOMAIN list_sf_objects :
      i # j => list_sf_objects[i].obj_api_name # list_sf_objects[j].obj_api_name

\* C10 amended: the same, for lists whose object names are pairwise distinct.
C10_DistinctNames == DistinctNames => C10_AnyList

\* two tasks of different objects are Running, both have written their CSV
C10_Witness ==
    /\ DistinctNames
    /\ \E i, j \in Running :
         /\ i # j
         /\ frame[i].pc = "pq" /\ frame[j].pc = "pq"
         /\ writes["csv"][list_sf_objects[i].obj_api_name] = << i >>
         /\ writes["csv"][list_sf_objects[j].obj_api_name] = << j >>

\* the two files of task i's object
FileOf(d, i) == outDir[d].files[list_sf_objects[i].obj_api_name]

\* C11 as stated: a task Succeeded(N) with N > 0 returned the number of
\* records its query answered, and when the pipeline has completed the CSV
\* file and the columnar file of its object hold exactly N rows and the
\* answered columns without 'attributes'.
C11_FilesMatchOutcome ==
    \A i \in Tasks :
      (Succeeded(i) /\ futures[i].result > 0) =>
        /\ futures[i].result = frame[i].nrecs
        /\ ExecuteOver =>
             \A d \in Dirs :
               /\ FileOf(d, i).present
               /\ FileOf(d, i).nrows = futures[i].result
               /\ FileOf(d, i).columns = frame[i].cols \ {"attributes"}

\* C11 amended: the same, for lists whose object names are pairwise
\* distinct; no file is then written by two tasks at once.
C11_DistinctNames ==
    DistinctNames =>
      /\ C11_FilesMatchOutcome
      /\ \A d \in Dirs : \A n \in ObjNames : ~outDir[d].files[n].mixed

\* a completed run over two different objects: one task succeeded with rows
\* and both of its files are on disk
C11_Witness ==
    /\ ExecuteOver
    /\ DistinctNames
    /\ Len(list_sf_objects) = 2
    /\ \E i \in Tasks :
         /\ Succeeded(i) /\ futures[i].result = MaxRows
         /\ \A d \in Dirs : FileOf(d, i).present /\ FileOf(d, i).writer = i

C13_EveryTaskEnds ==
    \A i \in 1..MaxObjs : (i \in Tasks) ~> (i \in Tasks /\ Terminal(i))

\* the collection loop has raised while another task is still Pending or
\* Running
C13_Witness ==
    /\ pcMain = "unwinding"
    /\ \E i \in Tasks : ~Terminal(i)

\* C14: tasks leave the queue in submission order: for i < j, task j is never
\* Running or finished while task i is still Pending, and the queue holds the
\* Pending tasks in ascending order. Completion order is not constrained.
C14_FifoStart ==
    /\ \A i, j \in Tasks :
         (i < j /\ futures[i].state = "PENDING") => futures[j].state = "PENDING"
    /\ \A k \in 1..Len(work_queue) :
         /\ futures[work_queue[k]].state = "PENDING"
         /\ \A m \in 1..(k - 1) : work_queue[m] < work_queue[k]

\* a later task has finished while an earlier one, started before it, is still
\* Running: completion order differs from submission order
C14_Witness ==
    \E i, j \in Tasks :
      /\ i < j
      /\ futures[i].state = "RUNNING"
      /\ Terminal(j)

\* task i holds a coerced frame: df.astype returned and a write is next
PastCoercion(i) == frame[i].pc \in {"csv", "pq"}

Declared(i) == Range(FieldNames(list_sf_objects[i].fields))

\* C15 as stated: a task with a non-empty result gets past coercion only when
\* the returned columns, minus the envelope, are exactly the declared fields:
\* a missing declared field and an undeclared column both fail it.
C15_ExactMatch ==
    \A i \in Tasks :
      PastCoercion(i) => frame[i].cols \ {"attributes"} = Declared(i)

\* C15 amended: a task with a non-empty result gets past coercion only when
\* every declared field is among the returned columns, so a missing declared
\* field fails it at coercion; an undeclared column does not.
C15_DeclaredPresent ==
    \A i \in Tasks :
      /\ PastCoercion(i) =>
           /\ frame[i].nrecs > 0
           /\ Declared(i) \subseteq frame[i].cols
           /\ frame[i].df.columns = frame[i].cols \ {"attributes"}
      /\ (frame[i].pc = "done" /\ frame[i].raised = "KeyError" /\ frame[i].nrecs > 0) =>
           /\ Failed(i)
           /\ \A d \in Dirs : i \notin Range(writes[d][list_sf_objects[i].obj_api_name])

\* one task of a non-empty result has failed with the KeyError of df.astype
\* before any write, another has passed coercion with an undeclared column
C15_Witness ==
    /\ \E i \in Tasks :
         /\ Failed(i)
         /\ frame[i].raised = "KeyError"
         /\ frame[i].nrecs > 0
    /\ \E j \in Tasks :
         /\ PastCoercion(j)
         /\ "Extra" \in frame[j].cols

\* task i has completed its CSV write and then failed in the columnar write
FailedInPq(i) ==
    /\ frame[i].pc = "done"
    /\ frame[i].raised = "OSError"
    /\ i \in Range(writes["csv"][list_sf_objects[i].obj_api_name])

\* C16: after the initial wipe and with distinct object names, the columnar
\* file of an object exists only if its CSV file exists, and no task writes
\* the columnar file before it has written the CSV file; a task that fails in
\* the columnar write ends Failed with its CSV file on disk.
C16_CsvBeforePq ==
    (pcMain # "pre_steps" /\ DistinctNames) =>
      /\ \A n \in ObjNames :
           outDir["pq"].files[n].present => outDir["csv"].files[n].present
      /\ \A i \in Tasks :
           LET name == list_sf_objects[i].obj_api_name
           IN  /\ i \in Range(writes["pq"][name]) => i \in Range(writes["csv"][name])
               /\ FailedInPq(i) =>
                    /\ Failed(i)
                    /\ FileOf("csv", i).present
                    /\ FileOf("csv", i).writer = i
                    /\ ~FileOf("pq", i).present

\* a task has failed in the columnar write and left only its CSV file, while
\* another object has both files
C16_Witness ==
    /\ DistinctNames
    /\ \E i \in Tasks : FailedInPq(i) /\ FileOf("csv", i).present
    /\ \E j \in Tasks : FileOf("csv", j).present /\ FileOf("pq", j).present

====
